---- MODULE Spec2Model ----
(***************************************************************************)
(* Seating engine of ExamSeatPlanner: the three placement strategies of    *)
(* SeatingService (generateParallelSeating, generateRandomSeating,         *)
(* generateSnakeSeating) and the plan assembler GenerateSeatingPlan; the   *)
(* AddInvigilatorToRoom handler, the notification scheduler and            *)
(* distributeStudentsAcrossRooms, each under a specification of its own.   *)
(*                                                                         *)
(* Strings of the program are modelled by small integers: a StudentID is a *)
(* number of 1..NumIds and 0 is the empty string; a Department is a number *)
(* of 1..NumDepts.  The program only compares these values for equality.   *)
(***************************************************************************)
EXTENDS Integers, Sequences, FiniteSets, TLC

\* ---------------------------------------------------------------- bounds
MaxRows == 2
MaxCols == 3
MaxRoster == 3
NumIds == 3
NumDepts == 3
MaxCalls == 2

StudentIDs == 1..NumIds
Departments == 1..NumDepts

\* StudentWithGroup (Name and Batch are never read by the strategies)
StudentWithGroup == [StudentID : StudentIDs, Department : Departments]

\* ---------------------------------------------------------------- helpers
Min(a, b) == IF a < b THEN a ELSE b

\* Go's make([]Seat, n): n zero-valued seats
ZeroSeat == [Row |-> 0, Column |-> 0, StudentID |-> 0, IsEmpty |-> FALSE]

MakeSeats(n) == [k \in 1..n |-> ZeroSeat]

\* Seat{Row, Column, StudentID, IsEmpty: false}
OccupiedSeat(r, c, id) == [Row |-> r, Column |-> c, StudentID |-> id, IsEmpty |-> FALSE]

\* A faulty EmptySeat: row and column swapped
EmptySeatSwapped(r, c) == [Row |-> c, Column |-> r, StudentID |-> 0, IsEmpty |-> TRUE]

\* Seat{Row, Column, IsEmpty: true}
EmptySeat(r, c) == [Row |-> r, Column |-> c, StudentID |-> 0, IsEmpty |-> TRUE]

\* The "group students by department" loop: the departments in first-seen order
RECURSIVE GroupDepts(_, _)
GroupDepts(students, depts) ==
    IF students = <<>> THEN depts
    ELSE LET d == Head(students).Department
         IN  GroupDepts(Tail(students),
                        IF \E k \in 1..Len(depts) : depts[k] = d
                        THEN depts ELSE Append(depts, d))

\* A faulty GroupDeptMap: the queue of a department is in reverse roster order
GroupDeptMapReversed(students) ==
    [d \in Departments |->
        LET q == SelectSeq(students, LAMBDA s : s.Department = d)
        IN  [k \in 1..Len(q) |-> q[Len(q) + 1 - k]]]

\* ... and the queue of every department, in roster order (a department that
\* is no key of the Go map has the empty queue, as a Go map lookup gives)
GroupDeptMap(students) ==
    [d \in Departments |-> SelectSeq(students, LAMBDA s : s.Department = d)]

\* ------------------------------------------------- generateParallelSeating
\* A faulty ParallelFill: every column starts at the head of its
\* department's queue
RECURSIVE ParallelFillPerColumn(_, _, _, _, _, _)
ParallelFillPerColumn(room, depts, dm, k, seats, colStudentIdx) ==
    IF k >= room.Rows * room.Columns THEN seats
    ELSE LET j == k \div room.Rows
             i == k % room.Rows
             dept == depts[(j % Len(depts)) + 1]
             seatIndex == i * room.Columns + j
         IN  IF i < Len(dm[dept])
             THEN ParallelFillPerColumn(room, depts, dm, k + 1,
                      [seats EXCEPT ![seatIndex + 1] =
                          OccupiedSeat(i + 1, j + 1, dm[dept][i + 1].StudentID)],
                      colStudentIdx)
             ELSE ParallelFillPerColumn(room, depts, dm, k + 1,
                      [seats EXCEPT ![seatIndex + 1] = EmptySeat(i + 1, j + 1)],
                      colStudentIdx)

\* A faulty ParallelFill: the department is taken by row, not by column
RECURSIVE ParallelFillByRow(_, _, _, _, _, _)
ParallelFillByRow(room, depts, dm, k, seats, colStudentIdx) ==
    IF k >= room.Rows * room.Columns THEN seats
    ELSE LET j == k \div room.Rows
             i == k % room.Rows
             dept == depts[(i % Len(depts)) + 1]
             seatIndex == i * room.Columns + j
             idx == colStudentIdx[dept]
         IN  IF idx < Len(dm[dept])
             THEN ParallelFillByRow(room, depts, dm, k + 1,
                      [seats EXCEPT ![seatIndex + 1] =
                          OccupiedSeat(i + 1, j + 1, dm[dept][idx + 1].StudentID)],
                      [colStudentIdx EXCEPT ![dept] = idx + 1])
             ELSE ParallelFillByRow(room, depts, dm, k + 1,
                      [seats EXCEPT ![seatIndex + 1] = EmptySeat(i + 1, j + 1)],
                      colStudentIdx)

\* One iteration of the column loops, in the order the code runs them
\* (columns outside, rows inside); k counts the iterations from 0.
RECURSIVE ParallelFill(_, _, _, _, _, _)
ParallelFill(room, depts, dm, k, seats, colStudentIdx) ==
    IF k >= room.Rows * room.Columns THEN seats
    ELSE LET j == k \div room.Rows
             i == k % room.Rows
             dept == depts[(j % Len(depts)) + 1]
             seatIndex == i * room.Columns + j
             idx == colStudentIdx[dept]
         IN  IF idx < Len(dm[dept])
             THEN ParallelFill(room, depts, dm, k + 1,
                      [seats EXCEPT ![seatIndex + 1] =
                          OccupiedSeat(i + 1, j + 1, dm[dept][idx + 1].StudentID)],
                      [colStudentIdx EXCEPT ![dept] = idx + 1])
             ELSE ParallelFill(room, depts, dm, k + 1,
                      [seats EXCEPT ![seatIndex + 1] = EmptySeat(i + 1, j + 1)],
                      colStudentIdx)

\* The outcome of a call: a grid, or a run-time panic (depts[i%len(depts)]
\* with no department divides by zero)
SeatsResult(seats) == [kind |-> "seats", seats |-> seats, unassigned |-> 0]
PanicResult == [kind |-> "panic", seats |-> <<>>, unassigned |-> 0]
ErrorResult(n) == [kind |-> "error", seats |-> <<>>, unassigned |-> n]
NoResult == [kind |-> "none", seats |-> <<>>, unassigned |-> 0]

generateParallelSeating(room, students) ==
    LET depts == GroupDepts(students, <<>>)
    IN  IF depts = <<>> THEN PanicResult
        ELSE SeatsResult(ParallelFill(room, depts, GroupDeptMap(students), 0,
                             MakeSeats(room.Rows * room.Columns),
                             [d \in Departments |-> 0]))

\* --------------------------------------------------- generateRandomSeating
\* A faulty NextDept: an exhausted department is not skipped
NextDeptNoSkip(depts, dm, deptIdx, tries) ==
    IF Len(depts) > 0 /\ Len(dm[depts[(deptIdx % Len(depts)) + 1]]) > 0
    THEN [found |-> TRUE, deptIdx |-> deptIdx, tries |-> 0]
    ELSE [found |-> FALSE, deptIdx |-> deptIdx + 1, tries |-> Len(depts)]

\* A faulty NextDept: no cursor, the first department in first-seen order
\* that has students left
NextDeptFirst(depts, dm, deptIdx, tries) ==
    LET ks == {k \in 1..Len(depts) : Len(dm[depts[k]]) > 0}
    IN  IF ks = {} THEN [found |-> FALSE, deptIdx |-> deptIdx, tries |-> Len(depts)]
        ELSE [found |-> TRUE, deptIdx |-> (CHOOSE k \in ks : \A m \in ks : k <= m) - 1,
              tries |-> 0]

\* The "find next department with students left" loop
RECURSIVE NextDept(_, _, _, _)
NextDept(depts, dm, deptIdx, tries) ==
    IF tries >= Len(depts) THEN [found |-> FALSE, deptIdx |-> deptIdx, tries |-> tries]
    ELSE LET dept == depts[(deptIdx % Len(depts)) + 1]
         IN  IF Len(dm[dept]) > 0
             THEN [found |-> TRUE, deptIdx |-> deptIdx, tries |-> tries]
             ELSE NextDept(depts, dm, deptIdx + 1, tries + 1)

\* A faulty RandomFill: every row is walked left to right
RECURSIVE RandomFillLeftToRight(_, _, _, _, _, _, _, _)
RandomFillLeftToRight(room, depts, studentCount, t, seats, dm, studentIndex, deptIdx) ==
    IF t >= room.Rows * room.Columns THEN seats
    ELSE LET i == t \div room.Columns
             j == t % room.Columns
             dept == depts[(deptIdx % Len(depts)) + 1]
         IN  IF studentIndex < studentCount /\ Len(dm[dept]) > 0
             THEN RandomFillLeftToRight(room, depts, studentCount, t + 1,
                      [seats EXCEPT ![t + 1] =
                          OccupiedSeat(i + 1, j + 1, Head(dm[dept]).StudentID)],
                      [dm EXCEPT ![dept] = Tail(dm[dept])],
                      studentIndex + 1, deptIdx + 1)
             ELSE IF studentIndex < studentCount
             THEN RandomFillLeftToRight(room, depts, studentCount, t,
                      seats, dm, studentIndex, deptIdx + 1)
             ELSE RandomFillLeftToRight(room, depts, studentCount, t + 1,
                      [seats EXCEPT ![t + 1] = EmptySeat(i + 1, j + 1)],
                      dm, studentIndex, deptIdx)

\* One seat of the serpentine traversal; t counts the seats visited from 0
RECURSIVE RandomFill(_, _, _, _, _, _, _, _)
RandomFill(room, depts, studentCount, t, seats, dm, studentIndex, deptIdx) ==
    IF t >= room.Rows * room.Columns THEN seats
    ELSE LET i == t \div room.Columns
             j == IF i % 2 = 0 THEN t % room.Columns
                  ELSE room.Columns - 1 - (t % room.Columns)
             seatIdx == i * room.Columns + j
         IN  IF studentIndex < studentCount
             THEN LET nd == NextDept(depts, dm, deptIdx, 0)
                      dept == depts[(nd.deptIdx % Len(depts)) + 1]
                  IN  IF nd.found
                      THEN RandomFill(room, depts, studentCount, t + 1,
                               [seats EXCEPT ![seatIdx + 1] =
                                   OccupiedSeat(i + 1, j + 1, Head(dm[dept]).StudentID)],
                               [dm EXCEPT ![dept] = Tail(dm[dept])],
                               studentIndex + 1, nd.deptIdx + 1)
                      ELSE RandomFill(room, depts, studentCount, t + 1,
                               IF nd.tries = Len(depts)
                               THEN [seats EXCEPT ![seatIdx + 1] = EmptySeat(i + 1, j + 1)]
                               ELSE seats,
                               dm, studentIndex, nd.deptIdx)
             ELSE RandomFill(room, depts, studentCount, t + 1,
                      [seats EXCEPT ![seatIdx + 1] = EmptySeat(i + 1, j + 1)],
                      dm, studentIndex, deptIdx)

\* A faulty generateRandomSeating: the roster is seated in roster order,
\* the departments are not interleaved
generateRandomSeatingRosterOrder(room, students) ==
    SeatsResult(RandomFill(room, <<1>>, Len(students), 0,
                    MakeSeats(room.Rows * room.Columns),
                    [d \in Departments |-> IF d = 1 THEN students ELSE <<>>], 0, 0))

generateRandomSeating(room, students) ==
    SeatsResult(RandomFill(room, GroupDepts(students, <<>>), Len(students), 0,
                    MakeSeats(room.Rows * room.Columns),
                    GroupDeptMap(students), 0, 0))

\* ---------------------------------------------------- generateSnakeSeating
\* studentDept: the department of a StudentID, the last roster entry winning
\* (0: the ID is no key of the map)
studentDept(students, id) ==
    LET ks == {k \in 1..Len(students) : students[k].StudentID = id}
    IN  IF ks = {} THEN 0
        ELSE students[CHOOSE k \in ks : \A m \in ks : m <= k].Department

\* A faulty adjDepts: to the left, empty seats are looked through up to the
\* nearest student of the row
adjDeptsPastEmpty(room, students, grid, i, j) ==
    LET above == grid[(i - 1) * room.Columns + j + 1]
        lefts == {c \in 0..(j - 1) : grid[i * room.Columns + c + 1].StudentID # 0}
        left == grid[i * room.Columns + (CHOOSE c \in lefts : \A m \in lefts : m <= c) + 1]
    IN  (IF i > 0 /\ above.StudentID # 0 /\ studentDept(students, above.StudentID) # 0
         THEN {studentDept(students, above.StudentID)} ELSE {})
        \cup
        (IF lefts # {} /\ studentDept(students, left.StudentID) # 0
         THEN {studentDept(students, left.StudentID)} ELSE {})

\* adjDepts: the departments of the students seated above and to the left
adjDepts(room, students, grid, i, j) ==
    LET above == grid[(i - 1) * room.Columns + j + 1]
        left == grid[i * room.Columns + (j - 1) + 1]
    IN  (IF i > 0 /\ above.StudentID # 0 /\ studentDept(students, above.StudentID) # 0
         THEN {studentDept(students, above.StudentID)} ELSE {})
        \cup
        (IF j > 0 /\ left.StudentID # 0 /\ studentDept(students, left.StudentID) # 0
         THEN {studentDept(students, left.StudentID)} ELSE {})

\* candidates: the departments with students left that are not adjacent
candidates(dm, adj) == {d \in Departments : Len(dm[d]) > 0 /\ d \notin adj}

\* unassigned: the students left in the queues after the grid was visited
RECURSIVE SumLen(_, _)
SumLen(dm, ds) ==
    IF ds = {} THEN 0
    ELSE LET d == CHOOSE x \in ds : TRUE
         IN  Len(dm[d]) + SumLen(dm, ds \ {d})

\* A faulty unassigned: the groups left are counted, not their members
unassignedGroups(dm) == Cardinality({d \in Departments : Len(dm[d]) > 0})

unassigned(dm) == SumLen(dm, Departments)

\* ------------------------------------------------------------------ state
VARIABLES
    room,       \* the Room of the strategy call
    students,   \* the roster of the strategy call
    algorithm,  \* the algorithm selector
    pc,         \* "idle", or "snake" inside generateSnakeSeating
    seats,      \* generateSnakeSeating: seats
    deptMap,    \* generateSnakeSeating: deptMap
    seatIdx,    \* generateSnakeSeating: the seats visited so far (i*Columns+j)
    seatDept,   \* generateSnakeSeating: per seat, the dept it was filled from
    result,     \* what the last strategy call returned
    prev,       \* what the call before it returned
    calls,      \* strategy calls made on (room, students)
    examFound,  \* repo: FindExamByID finds the exam
    examRooms,  \* repo: the ExamRoom documents of the exam
    planPc,     \* GenerateSeatingPlan: "off", "start", "build", "strategy", "done"
    allRooms,          \* GenerateSeatingPlan: allRooms
    roomExamRooms,     \* GenerateSeatingPlan: roomExamRooms
    roomStudentsList,  \* GenerateSeatingPlan: roomStudentsList
    roomIdx,    \* GenerateSeatingPlan: the room of the build loop (i + 1)
    planRooms,  \* GenerateSeatingPlan: planRooms
    plans,      \* repo: the seating plans stored by CreateSeatingPlan
    response,   \* what GenerateSeatingPlan returned
    invoked,    \* the strategy calls GenerateSeatingPlan made, in order
    roomInvigilators,  \* repo: per exam room document, its invigilators
    handlers,   \* AddInvigilatorToRoom: the requests being served
    requests,   \* AddInvigilatorToRoom: requests received so far
    notifications,  \* repo: per notification document, its status
    pending,    \* SendDueNotifications: notifications still to handle
    notifPc,    \* the scheduler goroutine: "wait" or "send"
    ticks,      \* ticks of the scheduler's ticker received so far
    emailedIn,  \* per notification, the ticks in which it was emailed
    notifHandled,  \* the notifications SendDueNotifications has handled
    distAlg,    \* distributeStudentsAcrossRooms: algorithm
    distStudents,  \* distributeStudentsAcrossRooms: allStudents
    distRooms,  \* distributeStudentsAcrossRooms: rooms (their capacities)
    distResult,    \* distributeStudentsAcrossRooms: result
    distPc,     \* distributeStudentsAcrossRooms: "off", the loop, "done", "panic"
    distQueue,  \* distributeStudentsAcrossRooms: students / deptMap of the branch
    distPos,    \* distributeStudentsAcrossRooms: iterations of the outer loop
    distRoomIdx    \* distributeStudentsAcrossRooms: roomIdx / idx

stratVars == <<room, students, algorithm, pc, seats, deptMap, seatIdx, seatDept,
               result, prev, calls>>
planVars == <<examFound, examRooms, planPc, allRooms, roomExamRooms, roomStudentsList,
              roomIdx,
              planRooms, plans, response, invoked>>
invVars == <<roomInvigilators, handlers, requests>>
notifVars == <<notifications, pending, notifPc, ticks, emailedIn, notifHandled>>
distVars == <<distAlg, distStudents, distRooms, distResult, distPc, distQueue,
              distPos, distRoomIdx>>
svcVars == <<invVars, notifVars, distVars>>
vars == <<stratVars, planVars, svcVars>>

\* Departments and StudentIDs are opaque strings: rosters are enumerated up to
\* renaming, each new department / ID being the least number not yet used.
FirstUse(r, field) ==
    \A k \in 1..Len(r) :
        r[k][field] <= 1 + Cardinality({r[m][field] : m \in 1..(k - 1)})

Rosters ==
    {r \in UNION {[1..n -> StudentWithGroup] : n \in 0..MaxRoster} :
        /\ FirstUse(r, "Department")
        /\ FirstUse(r, "StudentID")}

Rooms == {[ID |-> 1, Rows |-> r, Columns |-> c, Capacity |-> r * c] :
             r \in 1..MaxRows, c \in 1..MaxCols}

NoRoom == [ID |-> 0, Rows |-> 0, Columns |-> 0, Capacity |-> 0]
NoResponse == [kind |-> "none", err |-> "", unassigned |-> 0, plans |-> <<>>]

\* No strategy call is running
StratOff ==
    /\ room = NoRoom
    /\ students = <<>>
    /\ algorithm = ""
    /\ pc = "idle"
    /\ seats = <<>>
    /\ deptMap = [d \in Departments |-> <<>>]
    /\ seatIdx = 0
    /\ seatDept = <<>>
    /\ result = NoResult
    /\ prev = NoResult
    /\ calls = 0

\* No AddInvigilatorToRoom request, no scheduler, no distribution
InvOff ==
    /\ roomInvigilators = <<>>
    /\ handlers = <<>>
    /\ requests = 0

NotifOff ==
    /\ notifications = <<>>
    /\ pending = <<>>
    /\ notifPc = "off"
    /\ ticks = 0
    /\ emailedIn = <<>>
    /\ notifHandled = {}

DistOff ==
    /\ distAlg = ""
    /\ distStudents = <<>>
    /\ distRooms = <<>>
    /\ distResult = <<>>
    /\ distPc = "off"
    /\ distQueue = <<>>
    /\ distPos = 0
    /\ distRoomIdx = 0

\* The plan assembler is not running
PlanOff ==
    /\ examFound = FALSE
    /\ examRooms = <<>>
    /\ planPc = "off"
    /\ allRooms = <<>>
    /\ roomExamRooms = <<>>
    /\ roomStudentsList = <<>>
    /\ roomIdx = 0
    /\ planRooms = <<>>
    /\ plans = <<>>
    /\ response = NoResponse
    /\ invoked = <<>>

Init ==
    /\ room \in Rooms
    /\ students \in Rosters
    /\ algorithm \in {"parallel", "simple", "separated"}
    /\ pc = "idle"
    /\ seats = <<>>
    /\ deptMap = [d \in Departments |-> <<>>]
    /\ seatIdx = 0
    /\ seatDept = <<>>
    /\ result = NoResult
    /\ prev = NoResult
    /\ calls = 0
    /\ PlanOff
    /\ InvOff /\ NotifOff /\ DistOff

\* A call of generateParallelSeating(room, students)
CallParallel ==
    /\ pc = "idle" /\ algorithm = "parallel" /\ calls < MaxCalls
    /\ result' = generateParallelSeating(room, students)
    /\ prev' = result
    /\ calls' = calls + 1
    /\ UNCHANGED <<room, students, algorithm, pc, seats, deptMap, seatIdx, seatDept>>
    /\ UNCHANGED planVars
    /\ UNCHANGED svcVars

\* A call of generateRandomSeating(room, students)
CallRandom ==
    /\ pc = "idle" /\ algorithm = "simple" /\ calls < MaxCalls
    /\ result' = generateRandomSeating(room, students)
    /\ prev' = result
    /\ calls' = calls + 1
    /\ UNCHANGED <<room, students, algorithm, pc, seats, deptMap, seatIdx, seatDept>>
    /\ UNCHANGED planVars
    /\ UNCHANGED svcVars

\* A faulty SnakeEnter: the queues consumed by the call before are kept
SnakeEnterKeepQueues(rm, sts) ==
    /\ pc' = "snake"
    /\ seats' = MakeSeats(rm.Rows * rm.Columns)
    /\ deptMap' = IF calls = 0 THEN GroupDeptMap(sts) ELSE deptMap
    /\ seatIdx' = 0
    /\ seatDept' = <<>>

\* generateSnakeSeating, entry: the grid is allocated and the roster grouped
SnakeEnter(rm, sts) ==
    /\ pc' = "snake"
    /\ seats' = MakeSeats(rm.Rows * rm.Columns)
    /\ deptMap' = GroupDeptMap(sts)
    /\ seatIdx' = 0
    /\ seatDept' = <<>>

CallSnake ==
    /\ pc = "idle" /\ algorithm = "separated" /\ calls < MaxCalls
    /\ SnakeEnter(room, students)
    /\ prev' = result
    /\ calls' = calls + 1
    /\ UNCHANGED <<room, students, algorithm, result>>
    /\ UNCHANGED planVars
    /\ UNCHANGED svcVars

\* generateSnakeSeating, one seat (i, j) of the row-major loops.  candidates
\* is built by ranging over a Go map, whose iteration order is unspecified:
\* candidates[0] is any of the admissible departments.
SnakeSeat ==
    /\ pc = "snake" /\ seatIdx < room.Rows * room.Columns
    /\ LET i == seatIdx \div room.Columns
           j == seatIdx % room.Columns
           cands == candidates(deptMap, adjDepts(room, students, seats, i, j))
       IN  IF cands = {}
           THEN /\ seats' = [seats EXCEPT ![seatIdx + 1] = EmptySeat(i + 1, j + 1)]
                /\ seatDept' = Append(seatDept, 0)
                /\ deptMap' = deptMap
           ELSE \E dept \in cands :
                /\ seats' = [seats EXCEPT ![seatIdx + 1] =
                                OccupiedSeat(i + 1, j + 1, Head(deptMap[dept]).StudentID)]
                /\ seatDept' = Append(seatDept, dept)
                /\ deptMap' = [deptMap EXCEPT ![dept] = Tail(deptMap[dept])]
    /\ seatIdx' = seatIdx + 1
    /\ UNCHANGED <<room, students, algorithm, pc, result, prev, calls>>
    /\ UNCHANGED planVars
    /\ UNCHANGED svcVars

\* generateSnakeSeating, after the loops: the error or the grid
SnakeResult(grid, dm) ==
    IF unassigned(dm) > 0 THEN ErrorResult(unassigned(dm)) ELSE SeatsResult(grid)

SnakeReturn ==
    /\ pc = "snake" /\ seatIdx = room.Rows * room.Columns
    /\ result' = SnakeResult(seats, deptMap)
    /\ pc' = "idle"
    /\ UNCHANGED <<room, students, algorithm, seats, deptMap, seatIdx, seatDept,
                   prev, calls>>
    /\ UNCHANGED planVars
    /\ UNCHANGED svcVars

Next ==
    \/ CallParallel
    \/ CallRandom
    \/ CallSnake
    \/ SnakeSeat
    \/ SnakeReturn

Spec == Init /\ [][Next]_vars

\* ----------------------------------------------------- GenerateSeatingPlan
MaxExamRooms == 2

\* The CreateRoomRequest bodies the rooms were created from: a room whose
\* capacity is its grid, one whose capacity exceeds its grid, one whose
\* capacity is below its grid, and one with no row
CreateRoomRequest ==
    << [Rows |-> 2, Columns |-> 2, Capacity |-> 4],
       [Rows |-> 1, Columns |-> 2, Capacity |-> 3],
       [Rows |-> 1, Columns |-> 3, Capacity |-> 2],
       [Rows |-> 0, Columns |-> 2, Capacity |-> 1] >>

\* SeatingHandler.CreateRoom: the request's fields are stored as they come
CreateRoom(id, req) ==
    [ID |-> id, Rows |-> req.Rows, Columns |-> req.Columns, Capacity |-> req.Capacity]

\* The rooms collection
RoomTable ==
    [k \in 1..Len(CreateRoomRequest) |-> CreateRoom(k, CreateRoomRequest[k])]

\* The student lists collection, in the collection's order; a list carries
\* one department, and a student may be listed without an ID (0) and on
\* more than one list
StudentListTable ==
    << [ID |-> 1, Department |-> 1, Students |-> <<1, 2>>],
       [ID |-> 2, Department |-> 2, Students |-> <<3, 0>>],
       [ID |-> 3, Department |-> 2, Students |-> <<1>>] >>

\* ExamRoom documents, invigilators apart: RoomID 0 refers to no stored
\* room.  A failing repository read is handled by the code as the missing
\* document is (the room is skipped, the roster is empty), so it adds no
\* further outcome.
ExamRoom ==
    {[RoomID |-> 0, StudentListIDs |-> {}]}
    \cup [RoomID : 1..Len(RoomTable), StudentListIDs : SUBSET (1..Len(StudentListTable))]

\* repo.GetExamRooms: the exam rooms of an exam, in order.  Invigilators are
\* passed through unread: the k-th exam room is invigilated by user k.
GetExamRooms(ers) ==
    [k \in 1..Len(ers) |->
        [RoomID |-> ers[k].RoomID, StudentListIDs |-> ers[k].StudentListIDs,
         Invigilators |-> <<k>>]]

Algorithms == {"parallel", "simple", "separated", "matrix"}

\* repo.FindRoomByID: the room, or NoRoom (nil)
FindRoomByID(id) ==
    IF id \in 1..Len(RoomTable) THEN RoomTable[id] ELSE NoRoom

\* repo.FindStudentListsByIDs: the stored lists whose _id is among ids
FindStudentListsByIDs(ids) ==
    SelectSeq(StudentListTable, LAMBDA l : l.ID \in ids)

\* A faulty ListStudents: students without a StudentID are kept
RECURSIVE ListStudentsUnfiltered(_, _)
ListStudentsUnfiltered(dept, sts) ==
    IF sts = <<>> THEN <<>>
    ELSE <<[StudentID |-> Head(sts), Department |-> dept]>>
             \o ListStudentsUnfiltered(dept, Tail(sts))

\* The students of one list that have a StudentID, tagged with its department
RECURSIVE ListStudents(_, _)
ListStudents(dept, sts) ==
    IF sts = <<>> THEN <<>>
    ELSE (IF Head(sts) # 0
          THEN <<[StudentID |-> Head(sts), Department |-> dept]>>
          ELSE <<>>) \o ListStudents(dept, Tail(sts))

\* studentsForRoom before the capacity cut: all lists of the room, in order
RECURSIVE GatherStudents(_)
GatherStudents(lists) ==
    IF lists = <<>> THEN <<>>
    ELSE ListStudents(Head(lists).Department, Head(lists).Students)
             \o GatherStudents(Tail(lists))

\* A faulty CutToCapacity: the roster is not cut
CutToCapacityNoCut(sts, capacity) == sts

\* studentsForRoom[:room.Capacity] when it is longer than the capacity
CutToCapacity(sts, capacity) ==
    IF Len(sts) > capacity THEN SubSeq(sts, 1, capacity) ELSE sts

\* The roster of one exam room whose room was found
RoomRoster(rm, examRoom) ==
    LET lists == FindStudentListsByIDs(examRoom.StudentListIDs)
    IN  IF lists = <<>> THEN <<>>
        ELSE CutToCapacity(GatherStudents(lists), rm.Capacity)

\* A faulty FetchRooms: a student already on the roster of an earlier room
\* is left out of the later rooms' rosters
RECURSIVE FetchRoomsDedup(_, _, _, _)
FetchRoomsDedup(ers, rooms, exRooms, rosters) ==
    IF ers = <<>>
    THEN [allRooms |-> rooms, roomExamRooms |-> exRooms, roomStudentsList |-> rosters]
    ELSE LET rm == FindRoomByID(Head(ers).RoomID)
             assigned == UNION {{rosters[r][k].StudentID : k \in 1..Len(rosters[r])} :
                                   r \in 1..Len(rosters)}
             listed == GatherStudents(FindStudentListsByIDs(Head(ers).StudentListIDs))
         IN  IF rm = NoRoom
             THEN FetchRoomsDedup(Tail(ers), rooms, exRooms, rosters)
             ELSE FetchRoomsDedup(Tail(ers), Append(rooms, rm), Append(exRooms, Head(ers)),
                      Append(rosters,
                             CutToCapacity(SelectSeq(listed,
                                               LAMBDA st : st.StudentID \notin assigned),
                                           rm.Capacity)))

\* A faulty FetchRooms: an exam room whose room is not found still gets a
\* roster
RECURSIVE FetchRoomsUnaligned(_, _, _, _)
FetchRoomsUnaligned(ers, rooms, exRooms, rosters) ==
    IF ers = <<>>
    THEN [allRooms |-> rooms, roomExamRooms |-> exRooms, roomStudentsList |-> rosters]
    ELSE LET rm == FindRoomByID(Head(ers).RoomID)
         IN  IF rm = NoRoom
             THEN FetchRoomsUnaligned(Tail(ers), rooms, exRooms, Append(rosters, <<>>))
             ELSE FetchRoomsUnaligned(Tail(ers), Append(rooms, rm),
                      Append(exRooms, Head(ers)),
                      Append(rosters, RoomRoster(rm, Head(ers))))

\* The loop over examRooms: the rooms found, and the roster of each
RECURSIVE FetchRooms(_, _, _, _)
FetchRooms(ers, rooms, exRooms, rosters) ==
    IF ers = <<>>
    THEN [allRooms |-> rooms, roomExamRooms |-> exRooms, roomStudentsList |-> rosters]
    ELSE LET rm == FindRoomByID(Head(ers).RoomID)
         IN  IF rm = NoRoom
             THEN FetchRooms(Tail(ers), rooms, exRooms, rosters)
             ELSE FetchRooms(Tail(ers), Append(rooms, rm), Append(exRooms, Head(ers)),
                             Append(rosters, RoomRoster(rm, Head(ers))))

RECURSIVE TotalCapacity(_)
TotalCapacity(rooms) ==
    IF rooms = <<>> THEN 0 ELSE Head(rooms).Capacity + TotalCapacity(Tail(rooms))

RECURSIVE TotalStudents(_)
TotalStudents(rosters) ==
    IF rosters = <<>> THEN 0 ELSE Len(Head(rosters)) + TotalStudents(Tail(rosters))

ErrorResponse(e, n) == [kind |-> "error", err |-> e, unassigned |-> n, plans |-> <<>>]
PlansResponse(p) == [kind |-> "plans", err |-> "", unassigned |-> 0, plans |-> <<p>>]

\* A faulty EmptyRoomSeats: the seats are numbered column by column
EmptyRoomSeatsByColumn(rm) ==
    [k \in 1..(rm.Rows * rm.Columns) |->
        EmptySeat(((k - 1) % rm.Rows) + 1, ((k - 1) \div rm.Rows) + 1)]

\* A faulty EmptyRoomSeats: the seats are allocated and left as they are
EmptyRoomSeatsUnset(rm) == MakeSeats(rm.Rows * rm.Columns)

\* The seats of a room without students
EmptyRoomSeats(rm) ==
    [k \in 1..(rm.Rows * rm.Columns) |->
        EmptySeat(((k - 1) \div rm.Columns) + 1, ((k - 1) % rm.Columns) + 1)]

SeatingPlanRoom(rm, examRoom, grid) ==
    [RoomID |-> rm.ID, Capacity |-> rm.Capacity, Rows |-> rm.Rows,
     Columns |-> rm.Columns, Invigilators |-> examRoom.Invigilators, Seats |-> grid]

\* A faulty SeatingPlan: the plan is created as final
SeatingPlanFinal(alg, rooms) == [Algorithm |-> alg, Status |-> "final", Rooms |-> rooms]

SeatingPlan(alg, rooms) == [Algorithm |-> alg, Status |-> "draft", Rooms |-> rooms]

StrategyCall(alg, i, n) == [algorithm |-> alg, room |-> i, students |-> n]

PlanInit ==
    /\ examFound \in BOOLEAN
    /\ examRooms \in IF examFound
                     THEN {GetExamRooms(ers) :
                              ers \in UNION {[1..n -> ExamRoom] : n \in 0..MaxExamRooms}}
                     ELSE {<<>>}
    /\ algorithm \in Algorithms
    /\ planPc = "start"
    /\ allRooms = <<>>
    /\ roomExamRooms = <<>>
    /\ roomStudentsList = <<>>
    /\ roomIdx = 0
    /\ planRooms = <<>>
    /\ plans = <<>>
    /\ response = NoResponse
    /\ invoked = <<>>
    /\ room = NoRoom
    /\ students = <<>>
    /\ pc = "idle"
    /\ seats = <<>>
    /\ deptMap = [d \in Departments |-> <<>>]
    /\ seatIdx = 0
    /\ seatDept = <<>>
    /\ result = NoResult
    /\ prev = NoResult
    /\ calls = 0
    /\ InvOff /\ NotifOff /\ DistOff

\* Steps 1 to 4: the exam, its rooms, the rosters and the capacity check
PlanStart ==
    /\ planPc = "start"
    /\ LET f == FetchRooms(examRooms, <<>>, <<>>, <<>>)
       IN  IF ~examFound
           THEN /\ response' = ErrorResponse("exam not found", 0)
                /\ planPc' = "done"
                /\ UNCHANGED <<allRooms, roomExamRooms, roomStudentsList, roomIdx>>
           ELSE IF Len(examRooms) = 0
           THEN /\ response' = ErrorResponse("no rooms assigned to this exam", 0)
                /\ planPc' = "done"
                /\ UNCHANGED <<allRooms, roomExamRooms, roomStudentsList, roomIdx>>
           ELSE IF TotalStudents(f.roomStudentsList) > TotalCapacity(f.allRooms)
           THEN /\ response' = ErrorResponse("total students exceed total room capacity", 0)
                /\ planPc' = "done"
                /\ allRooms' = f.allRooms
                /\ roomExamRooms' = f.roomExamRooms
                /\ roomStudentsList' = f.roomStudentsList
                /\ UNCHANGED roomIdx
           ELSE /\ allRooms' = f.allRooms
                /\ roomExamRooms' = f.roomExamRooms
                /\ roomStudentsList' = f.roomStudentsList
                /\ roomIdx' = 1
                /\ planPc' = "build"
                /\ UNCHANGED response
    /\ UNCHANGED <<examFound, examRooms, planRooms, plans, invoked>>
    /\ UNCHANGED stratVars
    /\ UNCHANGED svcVars

InBuild == planPc = "build" /\ roomIdx <= Len(allRooms)

\* Step 5, a room with students under "parallel"
PlanRoomParallel ==
    /\ InBuild /\ Len(roomStudentsList[roomIdx]) > 0 /\ algorithm = "parallel"
    /\ LET r == generateParallelSeating(allRooms[roomIdx], roomStudentsList[roomIdx])
       IN  /\ planRooms' = Append(planRooms, SeatingPlanRoom(allRooms[roomIdx], roomExamRooms[roomIdx], r.seats))
           /\ result' = r
    /\ invoked' = Append(invoked,
                     StrategyCall("parallel", roomIdx, Len(roomStudentsList[roomIdx])))
    /\ roomIdx' = roomIdx + 1
    /\ UNCHANGED <<examFound, examRooms, planPc, allRooms, roomExamRooms, roomStudentsList, plans, response>>
    /\ UNCHANGED <<room, students, algorithm, pc, seats, deptMap, seatIdx, seatDept,
                   prev, calls>>
    /\ UNCHANGED svcVars

\* Step 5, a room with students under "simple"
PlanRoomSimple ==
    /\ InBuild /\ Len(roomStudentsList[roomIdx]) > 0 /\ algorithm = "simple"
    /\ LET r == generateRandomSeating(allRooms[roomIdx], roomStudentsList[roomIdx])
       IN  /\ planRooms' = Append(planRooms, SeatingPlanRoom(allRooms[roomIdx], roomExamRooms[roomIdx], r.seats))
           /\ result' = r
    /\ invoked' = Append(invoked,
                     StrategyCall("simple", roomIdx, Len(roomStudentsList[roomIdx])))
    /\ roomIdx' = roomIdx + 1
    /\ UNCHANGED <<examFound, examRooms, planPc, allRooms, roomExamRooms, roomStudentsList, plans, response>>
    /\ UNCHANGED <<room, students, algorithm, pc, seats, deptMap, seatIdx, seatDept,
                   prev, calls>>
    /\ UNCHANGED svcVars

\* Step 5, a room with students under "separated": generateSnakeSeating is
\* entered (SnakeSeat and SnakeReturn run it)
PlanRoomSnake ==
    /\ InBuild /\ Len(roomStudentsList[roomIdx]) > 0 /\ algorithm = "separated"
    /\ pc = "idle"
    /\ room' = allRooms[roomIdx]
    /\ students' = roomStudentsList[roomIdx]
    /\ SnakeEnter(allRooms[roomIdx], roomStudentsList[roomIdx])
    /\ result' = NoResult
    /\ planPc' = "strategy"
    /\ invoked' = Append(invoked,
                     StrategyCall("separated", roomIdx, Len(roomStudentsList[roomIdx])))
    /\ UNCHANGED <<examFound, examRooms, allRooms, roomExamRooms, roomStudentsList, roomIdx, planRooms,
                   plans, response>>
    /\ UNCHANGED <<algorithm, prev, calls>>
    /\ UNCHANGED svcVars

\* A faulty SnakeFailed: the error of generateSnakeSeating is ignored
SnakeFailedIgnored(r) == FALSE

\* if err != nil, after seats, err = s.generateSnakeSeating(room, roomStudents)
SnakeFailed(r) == r.kind = "error"

\* ... and generateSnakeSeating has returned: its error ends the call
PlanSnakeReturned ==
    /\ planPc = "strategy" /\ pc = "idle"
    /\ IF SnakeFailed(result)
       THEN /\ response' = ErrorResponse("Not all students can be accommodated",
                                         result.unassigned)
            /\ planPc' = "done"
            /\ UNCHANGED <<planRooms, roomIdx>>
       ELSE /\ planRooms' = Append(planRooms, SeatingPlanRoom(allRooms[roomIdx], roomExamRooms[roomIdx], result.seats))
            /\ roomIdx' = roomIdx + 1
            /\ planPc' = "build"
            /\ UNCHANGED response
    /\ UNCHANGED <<examFound, examRooms, allRooms, roomExamRooms, roomStudentsList, plans, invoked>>
    /\ UNCHANGED stratVars
    /\ UNCHANGED svcVars

\* Step 5, a room with students under any other selector
PlanRoomInvalid ==
    /\ InBuild /\ Len(roomStudentsList[roomIdx]) > 0
    /\ algorithm \notin {"parallel", "simple", "separated"}
    /\ response' = ErrorResponse("invalid algorithm specified", 0)
    /\ planPc' = "done"
    /\ UNCHANGED <<examFound, examRooms, allRooms, roomExamRooms, roomStudentsList, roomIdx, planRooms,
                   plans, invoked>>
    /\ UNCHANGED stratVars
    /\ UNCHANGED svcVars

\* Step 5, a room without students: empty seats, whatever the selector
PlanRoomEmpty ==
    /\ InBuild /\ Len(roomStudentsList[roomIdx]) = 0
    /\ planRooms' = Append(planRooms,
                        SeatingPlanRoom(allRooms[roomIdx], roomExamRooms[roomIdx], EmptyRoomSeats(allRooms[roomIdx])))
    /\ roomIdx' = roomIdx + 1
    /\ UNCHANGED <<examFound, examRooms, planPc, allRooms, roomExamRooms, roomStudentsList, plans,
                   response, invoked>>
    /\ UNCHANGED stratVars
    /\ UNCHANGED svcVars

\* After the loop: the draft plan is stored (repo.CreateSeatingPlan, which
\* may fail) and returned
PlanPersist ==
    /\ planPc = "build" /\ roomIdx > Len(allRooms)
    /\ \E stored \in BOOLEAN :
        IF stored
        THEN /\ plans' = Append(plans, SeatingPlan(algorithm, planRooms))
             /\ response' = PlansResponse(SeatingPlan(algorithm, planRooms))
        ELSE /\ plans' = plans
             /\ response' = ErrorResponse("create seating plan", 0)
    /\ planPc' = "done"
    /\ UNCHANGED <<examFound, examRooms, allRooms, roomExamRooms, roomStudentsList, roomIdx, planRooms,
                   invoked>>
    /\ UNCHANGED stratVars
    /\ UNCHANGED svcVars

PlanNext ==
    \/ PlanStart
    \/ PlanRoomParallel
    \/ PlanRoomSimple
    \/ PlanRoomSnake
    \/ SnakeSeat
    \/ SnakeReturn
    \/ PlanSnakeReturned
    \/ PlanRoomInvalid
    \/ PlanRoomEmpty
    \/ PlanPersist

PlanSpec == PlanInit /\ [][PlanNext]_vars

\* ---------------------------------------------------- AddInvigilatorToRoom
MaxRequests == 3
NumHandlers == 2
NumInvigilators == 2

\* The goroutines that serve requests, and the invigilators' ObjectIDs
Handlers == 1..NumHandlers
InvigilatorIDs == 1..NumInvigilators

\* The exam_rooms collection: per document its exam (two rooms of exam 1, one
\* of exam 2); the _id of a document is its index
ExamRoomTable == <<[ExamID |-> 1], [ExamID |-> 1], [ExamID |-> 2]>>

\* The ObjectIDs a request can name: the documents' and one of no document
ExamRoomIDs == 1..(Len(ExamRoomTable) + 1)

\* An outcome of a repository call: the driver answers or returns an error
DbOutcomes == {"ok", "error"}

StatusBadRequest == 400
StatusNotFound == 404
StatusConflict == 409
StatusInternalServerError == 500
StatusOK == 200

\* repo.FindExamRoomByID: the document's exam, 0 for nil
FindExamRoomByID(id) ==
    IF id \in DOMAIN ExamRoomTable THEN ExamRoomTable[id].ExamID ELSE 0

\* repo.GetExamRooms(examID): the _ids of the exam's documents
ExamRoomsOfExam(examID) ==
    {er \in DOMAIN ExamRoomTable : ExamRoomTable[er].ExamID = examID}

\* The handler's loop over examRooms: the invigilator is on the list of a room
\* of the exam other than the current one
AssignedElsewhere(invs, examID, examRoomID, invigilatorID) ==
    \E er \in ExamRoomsOfExam(examID) :
        er /= examRoomID /\ invigilatorID \in invs[er]

\* The update {$addToSet: {invigilators: invigilatorID}} on document examRoomID
AddToSet(invs, examRoomID, invigilatorID) ==
    [invs EXCEPT ![examRoomID] = @ \cup {invigilatorID}]

IdleHandler ==
    [pc |-> "idle", examRoomID |-> 0, invigilatorID |-> 0, examID |-> 0, status |-> 0]

\* The handler returns c.JSON(status, ...)
Respond(h, status) ==
    handlers' = [handlers EXCEPT ![h].pc = "idle", ![h].status = status]

InvInit ==
    /\ roomInvigilators = [er \in DOMAIN ExamRoomTable |-> {}]
    /\ handlers = [h \in Handlers |-> IdleHandler]
    /\ requests = 0
    /\ StratOff /\ PlanOff /\ NotifOff /\ DistOff

\* Bind and the ObjectID checks, then FindExamRoomByID
AddFindExamRoom ==
    /\ requests < MaxRequests
    /\ \E h \in Handlers, valid \in BOOLEAN, id \in ExamRoomIDs,
          inv \in InvigilatorIDs, db \in DbOutcomes :
        /\ handlers[h].pc = "idle"
        /\ handlers' = [handlers EXCEPT ![h] =
              IF ~valid
              THEN [IdleHandler EXCEPT !.status = StatusBadRequest]
              ELSE IF db = "error"
              THEN [pc |-> "idle", examRoomID |-> id, invigilatorID |-> inv,
                    examID |-> 0, status |-> StatusInternalServerError]
              ELSE IF FindExamRoomByID(id) = 0
              THEN [pc |-> "idle", examRoomID |-> id, invigilatorID |-> inv,
                    examID |-> 0, status |-> StatusNotFound]
              ELSE [pc |-> "rooms", examRoomID |-> id, invigilatorID |-> inv,
                    examID |-> FindExamRoomByID(id), status |-> 0]]
    /\ requests' = requests + 1
    /\ UNCHANGED roomInvigilators
    /\ UNCHANGED <<stratVars, planVars, notifVars, distVars>>

\* GetExamRooms reads the exam's documents as they are now; the loop over
\* what was read answers 409 or lets the request go on
AddCheckExamRooms ==
    /\ \E h \in Handlers, db \in DbOutcomes :
        /\ handlers[h].pc = "rooms"
        /\ IF db = "error"
           THEN Respond(h, StatusInternalServerError)
           ELSE IF AssignedElsewhere(roomInvigilators, handlers[h].examID,
                                     handlers[h].examRoomID, handlers[h].invigilatorID)
           THEN Respond(h, StatusConflict)
           ELSE handlers' = [handlers EXCEPT ![h].pc = "update"]
    /\ UNCHANGED <<roomInvigilators, requests>>
    /\ UNCHANGED <<stratVars, planVars, notifVars, distVars>>

\* repo.AddInvigilatorToRoom and the answer
AddUpdateExamRoom ==
    /\ \E h \in Handlers, db \in DbOutcomes :
        /\ handlers[h].pc = "update"
        /\ IF db = "error"
           THEN /\ Respond(h, StatusInternalServerError)
                /\ UNCHANGED roomInvigilators
           ELSE /\ Respond(h, StatusOK)
                /\ roomInvigilators' = AddToSet(roomInvigilators,
                       handlers[h].examRoomID, handlers[h].invigilatorID)
    /\ UNCHANGED requests
    /\ UNCHANGED <<stratVars, planVars, notifVars, distVars>>

InvNext ==
    \/ AddFindExamRoom
    \/ AddCheckExamRooms
    \/ AddUpdateExamRoom

InvSpec == InvInit /\ [][InvNext]_vars

\* ------------------------------------------------- notification scheduler
MaxNotifications == 2
MaxTicks == 3
NumUsers == 2

\* The users FindByRolesAndFaculties can return
Users == 1..NumUsers

\* ScheduleNotification: the document as CreateNotification inserts it
ScheduledNotification == [status |-> "scheduled", sent_to |-> {}]

\* GetPendingNotifications: the _ids of the documents with status "scheduled"
RECURSIVE GetPendingNotifications(_, _)
GetPendingNotifications(docs, k) ==
    IF k > Len(docs) THEN <<>>
    ELSE IF docs[k].status = "scheduled"
         THEN <<k>> \o GetPendingNotifications(docs, k + 1)
         ELSE GetPendingNotifications(docs, k + 1)

\* UpdateNotificationStatus: {$set: {status, sent_to}} on document id, or an
\* error that leaves the document as it was
UpdateNotificationStatus(docs, id, status, sentTo, db) ==
    IF db = "ok"
    THEN [docs EXCEPT ![id] = [status |-> status, sent_to |-> sentTo]]
    ELSE docs

\* The status SendDueNotifications chooses from sendNotification's error
SendStatus(lookup) == IF lookup = "ok" THEN "sent" ELSE "failed"

NotifInit ==
    /\ notifications = <<>>
    /\ pending = <<>>
    /\ notifPc = "wait"
    /\ ticks = 0
    /\ emailedIn = <<>>
    /\ notifHandled = {}
    /\ StratOff /\ PlanOff /\ InvOff /\ DistOff

\* POST /notifications/schedule, served while the scheduler runs
ScheduleNotification ==
    /\ Len(notifications) < MaxNotifications
    /\ notifications' = Append(notifications, ScheduledNotification)
    /\ emailedIn' = Append(emailedIn, {})
    /\ UNCHANGED <<pending, notifPc, ticks, notifHandled>>
    /\ UNCHANGED <<stratVars, planVars, invVars, distVars>>

\* case <-ticker.C: SendDueNotifications starts with GetPendingNotifications,
\* and returns at once when that fails
SchedulerTick ==
    /\ notifPc = "wait" /\ ticks < MaxTicks
    /\ ticks' = ticks + 1
    /\ \E db \in DbOutcomes :
        IF db = "ok"
        THEN /\ pending' = GetPendingNotifications(notifications, 1)
             /\ notifPc' = "send"
        ELSE UNCHANGED <<pending, notifPc>>
    /\ UNCHANGED <<notifications, emailedIn, notifHandled>>
    /\ UNCHANGED <<stratVars, planVars, invVars, distVars>>

\* One iteration of the loop of SendDueNotifications: sendNotification looks
\* the recipients up and emails them (delivered: those SendEmail reached),
\* then UpdateNotificationStatus is called and its error dropped
SendNotification ==
    /\ notifPc = "send" /\ pending /= <<>>
    /\ LET n == Head(pending)
       IN  \E lookup \in DbOutcomes, found \in SUBSET Users, update \in DbOutcomes :
           \E delivered \in SUBSET found :
              LET sentTo == IF lookup = "ok" THEN delivered ELSE {}
              IN  /\ emailedIn' = [emailedIn EXCEPT ![n] =
                         IF sentTo /= {} THEN @ \cup {ticks} ELSE @]
                  /\ notifications' = UpdateNotificationStatus(notifications, n,
                                          SendStatus(lookup), sentTo, update)
                  /\ notifHandled' = notifHandled \cup {n}
    /\ pending' = Tail(pending)
    /\ UNCHANGED <<notifPc, ticks>>
    /\ UNCHANGED <<stratVars, planVars, invVars, distVars>>

\* The loop is over: the goroutine is back at its select
SendReturn ==
    /\ notifPc = "send" /\ pending = <<>>
    /\ notifPc' = "wait"
    /\ UNCHANGED <<notifications, pending, ticks, emailedIn, notifHandled>>
    /\ UNCHANGED <<stratVars, planVars, invVars, distVars>>

NotifNext ==
    \/ ScheduleNotification
    \/ SchedulerTick
    \/ SendNotification
    \/ SendReturn

NotifSpec == NotifInit /\ [][NotifNext]_vars

\* ------------------------------------------- distributeStudentsAcrossRooms
MaxDistRooms == 2
MaxCapacity == 2

\* The rooms argument: a non-empty list of rooms, read for Capacity only
DistRooms ==
    UNION {[1..n -> [Capacity : 0..MaxCapacity]] : n \in 1..MaxDistRooms}

\* The algorithm argument: the three names of the switch and one other
DistAlgorithms == {"matrix", "random", "parallel", "sequential"}

\* result := make([][]StudentWithGroup, len(rooms)), every entry an empty list
MakeResult(n) == [k \in 1..n |-> <<>>]

\* rand.Shuffle of a copy of allStudents: any order of the same students
Shuffles(sts) ==
    {[k \in 1..Len(sts) |-> sts[perm[k]]] :
        perm \in {f \in [1..Len(sts) -> 1..Len(sts)] :
                     \A a, b \in 1..Len(sts) : f[a] = f[b] => a = b}}

\* "matrix", the proportional allocation of one room: alloc per department
RECURSIVE MatrixAlloc(_, _, _, _, _, _, _)
MatrixAlloc(depts, dm, cap, totalLeft, i, left, alloc) ==
    IF i > Len(depts) THEN alloc
    ELSE LET d == depts[i]
         IN  IF i = Len(depts)
             THEN [alloc EXCEPT ![d] = left]
             ELSE LET want == Min((Len(dm[d]) * cap) \div totalLeft, Len(dm[d]))
                  IN  MatrixAlloc(depts, dm, cap, totalLeft, i + 1, left - want,
                                  [alloc EXCEPT ![d] = want])

\* "matrix", "assign students to this room": alloc[d] students off each queue
RECURSIVE MatrixAssign(_, _, _, _, _)
MatrixAssign(depts, dm, alloc, i, roomStudents) ==
    IF i > Len(depts) THEN [students |-> roomStudents, deptMap |-> dm]
    ELSE LET d == depts[i]
             n == IF alloc[d] < 0 THEN 0 ELSE Min(alloc[d], Len(dm[d]))
         IN  MatrixAssign(depts, [dm EXCEPT ![d] = SubSeq(@, n + 1, Len(@))], alloc,
                          i + 1, roomStudents \o SubSeq(dm[d], 1, n))

\* "matrix", "fill any remaining seats round-robin"
RECURSIVE MatrixFill(_, _, _, _, _)
MatrixFill(depts, dm, cap, roomStudents, deptIdx) ==
    LET found == {t \in 0..(Len(depts) - 1) :
                     Len(dm[depts[((deptIdx + t) % Len(depts)) + 1]]) > 0}
    IN  IF Len(roomStudents) >= cap \/ found = {}
        THEN [students |-> roomStudents, deptMap |-> dm]
        ELSE LET t == CHOOSE x \in found : \A y \in found : x <= y
                 d == depts[((deptIdx + t) % Len(depts)) + 1]
             IN  MatrixFill(depts, [dm EXCEPT ![d] = Tail(@)], cap,
                            Append(roomStudents, Head(dm[d])), deptIdx + t)

\* "matrix", one room of the loop over rooms
MatrixRoom(cap, depts, dm) ==
    LET totalLeft == SumLen(dm, Departments)
    IN  IF totalLeft = 0
        THEN [students |-> <<>>, deptMap |-> dm]
        ELSE LET alloc == MatrixAlloc(depts, dm, cap, totalLeft, 1, cap,
                                      [d \in Departments |-> 0])
                 assigned == MatrixAssign(depts, dm, alloc, 1, <<>>)
             IN  MatrixFill(depts, assigned.deptMap, cap, assigned.students, 0)

\* "parallel", the loop "for idx < len(students)" of one department; roomIdx
\* counts from 0 and is a valid index when the loop starts
RECURSIVE ParallelDept(_, _, _, _, _)
ParallelDept(caps, res, rIdx, sts, idx) ==
    IF idx >= Len(sts) THEN [result |-> res, roomIdx |-> rIdx]
    ELSE LET capLeft == caps[rIdx + 1].Capacity - Len(res[rIdx + 1])
             toAssign == Min(capLeft, Len(sts) - idx)
             res2 == [res EXCEPT ![rIdx + 1] = @ \o SubSeq(sts, idx + 1, idx + toAssign)]
         IN  IF Len(res2[rIdx + 1]) >= caps[rIdx + 1].Capacity
             THEN IF rIdx + 1 >= Len(caps)
                  THEN [result |-> res2, roomIdx |-> rIdx + 1]
                  ELSE ParallelDept(caps, res2, rIdx + 1, sts, idx + toAssign)
             ELSE ParallelDept(caps, res2, rIdx, sts, idx + toAssign)

DistInit ==
    /\ distAlg \in DistAlgorithms
    /\ distStudents \in Rosters
    /\ distRooms \in DistRooms
    /\ distResult = <<>>
    /\ distPc = "start"
    /\ distQueue = <<>>
    /\ distPos = 0
    /\ distRoomIdx = 0
    /\ StratOff /\ PlanOff /\ InvOff /\ NotifOff

\* Entry: result is allocated and the branch of the switch prepares its
\* students (deptMap and depts, the shuffled copy, or allStudents itself)
DistStart ==
    /\ distPc = "start"
    /\ distResult' = MakeResult(Len(distRooms))
    /\ CASE distAlg \in {"matrix", "parallel"} ->
              /\ distQueue' = [depts |-> GroupDepts(distStudents, <<>>),
                               deptMap |-> GroupDeptMap(distStudents)]
              /\ distPc' = distAlg
         [] distAlg = "random" ->
              /\ distQueue' \in Shuffles(distStudents)
              /\ distPc' = "test"
         [] OTHER ->
              /\ distQueue' = distStudents
              /\ distPc' = "test"
    /\ UNCHANGED <<distAlg, distStudents, distRooms, distPos, distRoomIdx>>
    /\ UNCHANGED <<stratVars, planVars, invVars, notifVars>>

\* "matrix": one iteration of "for roomIdx, room := range rooms"
DistMatrixRoom ==
    /\ distPc = "matrix" /\ distPos < Len(distRooms)
    /\ LET r == MatrixRoom(distRooms[distPos + 1].Capacity, distQueue.depts,
                           distQueue.deptMap)
       IN  /\ distResult' = [distResult EXCEPT ![distPos + 1] = r.students]
           /\ distQueue' = [distQueue EXCEPT !.deptMap = r.deptMap]
    /\ distPos' = distPos + 1
    /\ UNCHANGED <<distAlg, distStudents, distRooms, distPc, distRoomIdx>>
    /\ UNCHANGED <<stratVars, planVars, invVars, notifVars>>

\* "parallel": one iteration of "for _, dept := range depts".  Once roomIdx
\* has left the rooms, rooms[roomIdx] is an index out of range: a panic
DistParallelDept ==
    /\ distPc = "parallel" /\ distPos < Len(distQueue.depts)
    /\ IF distRoomIdx >= Len(distRooms)
       THEN /\ distPc' = "panic"
            /\ UNCHANGED <<distResult, distRoomIdx, distPos>>
       ELSE LET r == ParallelDept(distRooms, distResult, distRoomIdx,
                         distQueue.deptMap[distQueue.depts[distPos + 1]], 0)
            IN  /\ distResult' = r.result
                /\ distRoomIdx' = r.roomIdx
                /\ distPos' = distPos + 1
                /\ distPc' = distPc
    /\ UNCHANGED <<distAlg, distStudents, distRooms, distQueue>>
    /\ UNCHANGED <<stratVars, planVars, invVars, notifVars>>

\* "random" and default: for the student at hand, the condition of the inner
\* loop (result[idx] is never nil: every entry was made); a room with space
\* takes the student and the index moves on
DistTest ==
    /\ distPc = "test" /\ distPos < Len(distQueue)
    /\ IF Len(distResult[distRoomIdx + 1]) >= distRooms[distRoomIdx + 1].Capacity
       THEN /\ distPc' = "skip"
            /\ UNCHANGED <<distResult, distPos, distRoomIdx>>
       ELSE /\ distResult' = [distResult EXCEPT ![distRoomIdx + 1] =
                                 Append(@, distQueue[distPos + 1])]
            /\ distRoomIdx' = (distRoomIdx + 1) % Len(distRooms)
            /\ distPos' = distPos + 1
            /\ distPc' = distPc
    /\ UNCHANGED <<distAlg, distStudents, distRooms, distQueue>>
    /\ UNCHANGED <<stratVars, planVars, invVars, notifVars>>

\* "random" and default: the body of the inner loop, on to the next room
DistSkip ==
    /\ distPc = "skip"
    /\ distRoomIdx' = (distRoomIdx + 1) % Len(distRooms)
    /\ distPc' = "test"
    /\ UNCHANGED <<distAlg, distStudents, distRooms, distResult, distQueue, distPos>>
    /\ UNCHANGED <<stratVars, planVars, invVars, notifVars>>

\* The loop of the branch is over: return result
DistReturn ==
    /\ \/ distPc = "matrix" /\ distPos = Len(distRooms)
       \/ distPc = "parallel" /\ distPos = Len(distQueue.depts)
       \/ distPc = "test" /\ distPos = Len(distQueue)
    /\ distPc' = "done"
    /\ UNCHANGED <<distAlg, distStudents, distRooms, distResult, distQueue, distPos,
                   distRoomIdx>>
    /\ UNCHANGED <<stratVars, planVars, invVars, notifVars>>

DistNext ==
    \/ DistStart
    \/ DistMatrixRoom
    \/ DistParallelDept
    \/ DistTest
    \/ DistSkip
    \/ DistReturn

\* The call runs on one goroutine that is never suspended for good: a step
\* that can be taken is taken
DistSpec == DistInit /\ [][DistNext]_vars /\ WF_vars(DistNext)

\* ================================================================ claims
\* The seats of a grid that hold a student
OccupiedIdx(grid) == {k \in 1..Len(grid) : ~grid[k].IsEmpty}
Occupied(grid) == Cardinality(OccupiedIdx(grid))
RosterIds(r) == {r[k].StudentID : k \in 1..Len(r)}
Returned == pc = "idle" /\ result.kind # "none"

\* C1 -- Coverage: every grid a strategy returns has exactly Rows*Columns
\* seats and every coordinate (r, c), 1 <= r <= Rows, 1 <= c <= Columns,
\* appears exactly once in it.
C1_Coverage ==
    (Returned /\ result.kind = "seats") =>
        /\ Len(result.seats) = room.Rows * room.Columns
        /\ \A r \in 1..room.Rows, c \in 1..room.Columns :
               Cardinality({k \in 1..Len(result.seats) :
                   result.seats[k].Row = r /\ result.seats[k].Column = c}) = 1

C1_Witness ==
    /\ Returned /\ result.kind = "seats"
    /\ room.Rows = 2 /\ room.Columns = 2
    /\ Occupied(result.seats) = 3

\* C3 (as stated) -- Conservation: for Column-Banded and for Serpentine the
\* number of occupied seats is min(len(roster), Rows*Columns) and every
\* occupied seat holds an ID of the roster.
C3_ConservationAsStated ==
    (Returned /\ result.kind = "seats" /\ algorithm \in {"parallel", "simple"}) =>
        /\ Occupied(result.seats) = Min(Len(students), room.Rows * room.Columns)
        /\ \A k \in OccupiedIdx(result.seats) :
               result.seats[k].StudentID \in RosterIds(students)

\* C3 (amended) -- Conservation: for Serpentine the number of occupied seats
\* is min(len(roster), Rows*Columns); for Column-Banded it is at most that
\* number, and equal to it when the whole roster is one group; in both every
\* occupied seat holds an ID of the roster.
C3_Conservation ==
    (Returned /\ result.kind = "seats" /\ algorithm \in {"parallel", "simple"}) =>
        LET cap == Min(Len(students), room.Rows * room.Columns)
        IN  /\ algorithm = "simple" => Occupied(result.seats) = cap
            /\ algorithm = "parallel" =>
                   /\ Occupied(result.seats) <= cap
                   /\ Len(GroupDepts(students, <<>>)) = 1 =>
                          Occupied(result.seats) = cap
            /\ \A k \in OccupiedIdx(result.seats) :
                   result.seats[k].StudentID \in RosterIds(students)

C3_Witness ==
    /\ Returned /\ result.kind = "seats" /\ algorithm = "parallel"
    /\ Occupied(result.seats) < Min(Len(students), room.Rows * room.Columns)

\* C4 -- Adjacency invariant: in a grid generateSnakeSeating returns without
\* error no occupied seat has, directly above or directly to its left, an
\* occupied seat filled from the same department.
C4_AdjacencyInvariant ==
    (Returned /\ result.kind = "seats" /\ algorithm = "separated") =>
        \A k \in OccupiedIdx(result.seats) :
            /\ (k > room.Columns /\ (k - room.Columns) \in OccupiedIdx(result.seats))
                   => seatDept[k] # seatDept[k - room.Columns]
            /\ ((k - 1) % room.Columns # 0 /\ (k - 1) \in OccupiedIdx(result.seats))
                   => seatDept[k] # seatDept[k - 1]

\* C5 -- Determinism: two calls of a strategy with the same room and the
\* same roster return the same outcome.
C5_Determinism ==
    (pc = "idle" /\ calls >= 2) => result = prev

\* C8 -- Adjacency-Avoiding tie-break: at a seat whose pool of admissible
\* departments is not empty, the next queued student of the admissible
\* department that comes first in first-seen roster order is seated.
FirstSeenOf(depts, pool) ==
    depts[CHOOSE k \in 1..Len(depts) :
              depts[k] \in pool /\ \A m \in 1..(k - 1) : depts[m] \notin pool]

C8_TieBreak ==
    [][ LET pool == candidates(deptMap,
                        adjDepts(room, students, seats,
                                 seatIdx \div room.Columns, seatIdx % room.Columns))
        IN  (pc = "snake" /\ seatIdx' = seatIdx + 1 /\ pool # {}) =>
                LET d == FirstSeenOf(GroupDepts(students, <<>>), pool)
                IN  /\ seatDept'[seatIdx + 1] = d
                    /\ seats'[seatIdx + 1].StudentID = Head(deptMap[d]).StudentID ]_vars

\* C9 -- Adjacency-Avoiding outcome: after the whole grid was visited a grid
\* is returned if and only if every candidate was seated; otherwise the
\* error carries the number of candidates not seated (roster size minus
\* occupied seats).
C9_SnakeOutcome ==
    (Returned /\ algorithm = "separated") =>
        /\ result.kind \in {"seats", "error"}
        /\ result.kind = "seats" <=> Occupied(seats) = Len(students)
        /\ result.kind = "seats" => result.seats = seats
        /\ result.kind = "error" =>
               result.unassigned = Len(students) - Occupied(seats)

C9_Witness ==
    /\ Returned /\ algorithm = "separated"
    /\ result.kind = "error" /\ result.unassigned = 2
    /\ Occupied(seats) = 1

\* ------------------------------------------------ claims on the assembler
\* The students listed with an ID for the exam rooms whose room is stored,
\* and the capacity of these rooms
RECURSIVE ListedStudents(_)
ListedStudents(ers) ==
    IF ers = <<>> THEN 0
    ELSE (IF FindRoomByID(Head(ers).RoomID) = NoRoom THEN 0
          ELSE Len(GatherStudents(FindStudentListsByIDs(Head(ers).StudentListIDs))))
         + ListedStudents(Tail(ers))

RECURSIVE ListedCapacity(_)
ListedCapacity(ers) ==
    IF ers = <<>> THEN 0
    ELSE FindRoomByID(Head(ers).RoomID).Capacity + ListedCapacity(Tail(ers))

\* C2 -- No double-booking: in every room grid of every stored plan no
\* student ID appears in more than one seat.
C2_NoDoubleBooking ==
    \A p \in 1..Len(plans) : \A r \in 1..Len(plans[p].Rooms) :
        LET grid == plans[p].Rooms[r].Seats
        IN  \A k, m \in 1..Len(grid) :
                (k # m /\ grid[k].StudentID # 0) => grid[k].StudentID # grid[m].StudentID

\* C6 -- Capacity check: when the students listed for the exam's rooms
\* outnumber the capacities of these rooms, GenerateSeatingPlan (called with
\* an accepted selector, the store working) ends with the capacity error, has
\* invoked no strategy and has stored no plan.
C6_CapacityCheck ==
    (/\ planPc = "done" /\ examFound /\ Len(examRooms) > 0
     /\ algorithm \in {"parallel", "simple", "separated"}
     /\ response.err # "create seating plan"
     /\ ListedStudents(examRooms) > ListedCapacity(examRooms)) =>
        /\ response.kind = "error"
        /\ response.err = "total students exceed total room capacity"
        /\ invoked = <<>>
        /\ plans = <<>>

\* C7 -- InvalidAlgorithm: for a selector outside the accepted names
\* GenerateSeatingPlan, for an exam that exists and whose rooms are all
\* stored (the store working), ends with the invalid-algorithm error, has
\* invoked no strategy and has stored no plan.
C7_InvalidAlgorithm ==
    (/\ planPc = "done" /\ examFound /\ Len(examRooms) > 0
     /\ Len(allRooms) = Len(examRooms)
     /\ response.err # "create seating plan"
     /\ algorithm \notin {"parallel", "simple", "separated"}) =>
        /\ response.kind = "error"
        /\ response.err = "invalid algorithm specified"
        /\ invoked = <<>>
        /\ plans = <<>>

\* C10 -- Infeasible propagation: once generateSnakeSeating has failed for a
\* room and GenerateSeatingPlan has taken its result, the call has ended with
\* that room's error (the rooms before it were all seated, so it is the
\* first), returns and stores no plan, seats no further room and has called
\* no other strategy.
C10_InfeasiblePropagation ==
    (planPc # "off" /\ planPc # "strategy" /\ result.kind = "error") =>
        /\ planPc = "done"
        /\ response = ErrorResponse("Not all students can be accommodated",
                                    result.unassigned)
        /\ result.unassigned = unassigned(deptMap)
        /\ room = allRooms[roomIdx]
        /\ Len(planRooms) = roomIdx - 1
        /\ plans = <<>>
        /\ \A c \in 1..Len(invoked) : invoked[c].algorithm = "separated"
        /\ invoked[Len(invoked)].room = roomIdx

C10_Witness ==
    /\ planPc = "done" /\ result.kind = "error"
    /\ roomIdx = 2 /\ Len(planRooms) = 1
    /\ Occupied(planRooms[1].Seats) > 0
    /\ response.kind = "error" /\ response.unassigned = 1

\* C11 -- Strategy precondition: whenever GenerateSeatingPlan invokes a
\* strategy for a room (of a well-formed grid), the roster it passes has at
\* most Rows*Columns candidates, whatever the room's Capacity.
C11_StrategyPrecondition ==
    \A c \in 1..Len(invoked) :
        LET rm == allRooms[invoked[c].room]
        IN  (rm.Rows >= 1 /\ rm.Columns >= 1) =>
                invoked[c].students <= rm.Rows * rm.Columns

\* C12 -- InvalidDimensions: no stored plan contains a room with Rows < 1 or
\* Columns < 1.
C12_InvalidDimensions ==
    \A p \in 1..Len(plans) : \A r \in 1..Len(plans[p].Rooms) :
        plans[p].Rooms[r].Rows >= 1 /\ plans[p].Rooms[r].Columns >= 1

\* ------------------------------------------------ claims on the placement
\* The groups of a roster in first-seen order, and the members of a group in
\* roster order
FirstSeenAt(r) ==
    {k \in 1..Len(r) : \A m \in 1..(k - 1) : r[m].Department # r[k].Department}

FirstSeenGroups(r) ==
    [n \in 1..Cardinality(FirstSeenAt(r)) |->
        r[CHOOSE k \in FirstSeenAt(r) :
              Cardinality({m \in FirstSeenAt(r) : m < k}) = n - 1].Department]

Members(r, d) == SelectSeq(r, LAMBDA s : s.Department = d)

\* The IDs of a grid, seat by seat (0: no student)
GridIds(grid) == [k \in 1..Len(grid) |-> grid[k].StudentID]

\* The roster [A1:X, A2:X, A3:Y] of the spec's scenarios
ScenarioRoster ==
    << [StudentID |-> 1, Department |-> 1],
       [StudentID |-> 2, Department |-> 1],
       [StudentID |-> 3, Department |-> 2] >>

\* C13 -- Column-Banded placement: with the groups in first-seen order, the
\* seat of row i, column j (0-based) belongs to groups[j mod len(groups)]; it
\* holds the member of that group whose place in the group's queue is the
\* number of seats of the group's columns reached before it (columns left to
\* right, rows top to bottom), and it is empty exactly when the queue has no
\* such member.  So the occupied seats of a column are a run from the top row
\* and nothing is rebalanced.  2x2 with [A1:X, A2:X, A3:Y] gives (1,1)=A1,
\* (2,1)=A2, (1,2)=A3, (2,2) empty.
C13_ColumnBanded ==
    (Returned /\ result.kind = "seats" /\ algorithm = "parallel") =>
        LET groups == FirstSeenGroups(students)
            n == Len(groups)
        IN  /\ \A i \in 0..(room.Rows - 1), j \in 0..(room.Columns - 1) :
                   LET queue == Members(students, groups[(j % n) + 1])
                       before == room.Rows * Cardinality({c \in 0..(j - 1) : c % n = j % n}) + i
                       seat == result.seats[i * room.Columns + j + 1]
                   IN  IF before < Len(queue)
                       THEN ~seat.IsEmpty /\ seat.StudentID = queue[before + 1].StudentID
                       ELSE seat.IsEmpty /\ seat.StudentID = 0
            /\ (room.Rows = 2 /\ room.Columns = 2 /\ students = ScenarioRoster) =>
                   GridIds(result.seats) = <<1, 3, 2, 0>>

C13_Witness ==
    /\ Returned /\ result.kind = "seats" /\ algorithm = "parallel"
    /\ room.Rows = 2 /\ room.Columns = 2 /\ students = ScenarioRoster
    /\ GridIds(result.seats) = <<1, 3, 2, 0>>

\* The seat (index into the grid) at 0-based position p of the serpentine
\* path: row 1 left to right, row 2 right to left, ...
PathSeat(rm, p) ==
    LET i == p \div rm.Columns
    IN  i * rm.Columns
          + (IF i % 2 = 0 THEN p % rm.Columns ELSE rm.Columns - 1 - (p % rm.Columns))
          + 1

\* The candidates seated by round-robin over the groups: with `taken` members
\* of each group (by its place in the group list) seated and the cursor at
\* place `cursor`, the next candidate is the next queued member of the first
\* group at places cursor, cursor + 1, ... (cyclically) that has one, and
\* the cursor moves to the place after that group.
RECURSIVE RoundRobin(_, _, _, _, _)
RoundRobin(r, groups, todo, cursor, taken) ==
    IF todo = 0 THEN <<>>
    ELSE LET n == Len(groups)
             Waiting(k) == taken[((cursor + k) % n) + 1]
                               < Len(Members(r, groups[((cursor + k) % n) + 1]))
             k == CHOOSE x \in 0..(n - 1) : Waiting(x) /\ \A m \in 0..(x - 1) : ~Waiting(m)
             g == ((cursor + k) % n) + 1
         IN  <<Members(r, groups[g])[taken[g] + 1]>>
                 \o RoundRobin(r, groups, todo - 1, g % n, [taken EXCEPT ![g] = taken[g] + 1])

\* The candidates of a roster in the order Serpentine seats them along the path
SerpentineOrder(rm, r) ==
    RoundRobin(r, FirstSeenGroups(r), Min(Len(r), rm.Rows * rm.Columns), 0,
               [g \in 1..Len(FirstSeenGroups(r)) |-> 0])

C15_SerpentineTraversal ==
    (Returned /\ result.kind = "seats" /\ algorithm = "simple") =>
        \A p \in 0..(room.Rows * room.Columns - 1) :
            LET seat == result.seats[PathSeat(room, p)]
            IN  IF p < Min(Len(students), room.Rows * room.Columns)
                THEN ~seat.IsEmpty /\ seat.StudentID # 0
                ELSE seat.IsEmpty /\ seat.StudentID = 0

\* The path turns: the third candidate sits at the right end of row 2
C15_Witness ==
    /\ Returned /\ result.kind = "seats" /\ algorithm = "simple"
    /\ room.Rows = 2 /\ room.Columns = 2 /\ Len(students) = 3
    /\ OccupiedIdx(result.seats) = {1, 2, 4}

\* A roster whose candidates have distinct IDs, and the group of such a
\* roster's candidate
DistinctIds(r) == \A k, m \in 1..Len(r) : k # m => r[k].StudentID # r[m].StudentID

GroupOf(r, id) == r[CHOOSE k \in 1..Len(r) : r[k].StudentID = id].Department

\* C16 -- Serpentine interleaving (candidates told apart by their IDs): two
\* consecutive occupied seats of the serpentine path hold candidates of the
\* same group only if every candidate of every other group sits at an
\* earlier seat of the path, i.e. the other groups were exhausted when the
\* second of the two seats was filled.
C16_SerpentineInterleaving ==
    (Returned /\ result.kind = "seats" /\ algorithm = "simple" /\ DistinctIds(students)) =>
        \A p \in 1..(room.Rows * room.Columns - 1) :
            LET a == result.seats[PathSeat(room, p - 1)]
                b == result.seats[PathSeat(room, p)]
            IN  (/\ ~a.IsEmpty /\ ~b.IsEmpty
                 /\ GroupOf(students, a.StudentID) = GroupOf(students, b.StudentID)) =>
                    \A k \in 1..Len(students) :
                        students[k].Department # GroupOf(students, b.StudentID) =>
                            \E q \in 0..(p - 1) :
                                result.seats[PathSeat(room, q)].StudentID
                                    = students[k].StudentID

\* Two of group Y side by side after the only candidate of group X
C16_Witness ==
    /\ Returned /\ result.kind = "seats" /\ algorithm = "simple"
    /\ room.Rows = 2 /\ room.Columns = 2
    /\ students = << [StudentID |-> 1, Department |-> 1],
                     [StudentID |-> 2, Department |-> 2],
                     [StudentID |-> 3, Department |-> 2] >>
    /\ result.seats[2].StudentID = 2 /\ result.seats[4].StudentID = 3

\* ------------------------------------- further claims on the assembler
\* A grid in row-major order: the seat at 0-based position k has
\* row k div Columns + 1 and column k mod Columns + 1
RowMajor(grid, rm) ==
    /\ Len(grid) = rm.Rows * rm.Columns
    /\ \A k \in 1..Len(grid) :
           /\ grid[k].Row = ((k - 1) \div rm.Columns) + 1
           /\ grid[k].Column = ((k - 1) % rm.Columns) + 1

\* C17 -- Row-major output: every grid GenerateSeatingPlan takes from a
\* strategy or builds for a room without students, whatever the order the
\* seats were filled in, has at 0-based position k the seat of row
\* k div Columns + 1 and column k mod Columns + 1.
C17_RowMajorOutput ==
    /\ (Returned /\ result.kind = "seats" /\ room # NoRoom) => RowMajor(result.seats, room)
    /\ \A r \in 1..Len(planRooms) : RowMajor(planRooms[r].Seats, allRooms[r])
    /\ \A p \in 1..Len(plans) : \A r \in 1..Len(plans[p].Rooms) :
           RowMajor(plans[p].Rooms[r].Seats, plans[p].Rooms[r])

\* A stored plan with a 2x2 grid filled column by column and a grid of a
\* room without students
C17_Witness ==
    /\ planPc = "done" /\ Len(plans) = 1 /\ algorithm = "parallel"
    /\ Len(plans[1].Rooms) = 2
    /\ plans[1].Rooms[1].Rows = 2 /\ plans[1].Rooms[1].Columns = 2
    /\ Occupied(plans[1].Rooms[1].Seats) = 3
    /\ roomStudentsList[2] = <<>> /\ Len(plans[1].Rooms[2].Seats) = 3

\* C18 -- Empty rooms: GenerateSeatingPlan invokes a strategy only with a
\* non-empty roster; for a room whose roster is empty it invokes none and
\* the room's grid has Rows*Columns seats, all empty, in row-major order.
C18_EmptyRooms ==
    /\ \A c \in 1..Len(invoked) :
           /\ invoked[c].students > 0
           /\ roomStudentsList[invoked[c].room] # <<>>
    /\ \A r \in 1..Len(planRooms) :
           roomStudentsList[r] = <<>> =>
               /\ \A c \in 1..Len(invoked) : invoked[c].room # r
               /\ RowMajor(planRooms[r].Seats, allRooms[r])
               /\ \A k \in 1..Len(planRooms[r].Seats) :
                      /\ planRooms[r].Seats[k].IsEmpty
                      /\ planRooms[r].Seats[k].StudentID = 0
    /\ response.kind = "plans" =>
           /\ Len(planRooms) = Len(allRooms)
           /\ response.plans[1].Rooms = planRooms

\* A stored plan whose first room has no student and whose second room was
\* seated by a strategy
C18_Witness ==
    /\ planPc = "done" /\ response.kind = "plans" /\ algorithm = "separated"
    /\ Len(planRooms) = 2
    /\ roomStudentsList[1] = <<>> /\ Len(planRooms[1].Seats) = 4
    /\ Len(invoked) = 1 /\ invoked[1].room = 2
    /\ Occupied(planRooms[2].Seats) = 2

\* ------------------------------------------- further claims on the placement
\* The roster of three candidates of one group
OneGroupRoster ==
    << [StudentID |-> 1, Department |-> 1],
       [StudentID |-> 2, Department |-> 1],
       [StudentID |-> 3, Department |-> 1] >>

\* C19 (as stated) -- Scenario: Adjacency-Avoiding on a 1x3 room with three
\* candidates of one group fills the first seat, leaves the second seat
\* empty, and the result is the error with unassigned count 2.
C19_ScenarioAsStated ==
    (/\ Returned /\ algorithm = "separated"
     /\ room.Rows = 1 /\ room.Columns = 3 /\ students = OneGroupRoster) =>
        /\ seats[1].StudentID = 1
        /\ seats[2].IsEmpty
        /\ result = ErrorResult(2)

\* C19 (amended) -- Scenario: Adjacency-Avoiding on a 1x3 room with three
\* candidates of one group fills the first seat with the first candidate,
\* leaves the second seat empty (its left neighbour is of the same group),
\* fills the third seat with the second candidate (its left neighbour is
\* empty), and the result is the error with unassigned count 1.
C19_Scenario ==
    (/\ Returned /\ algorithm = "separated"
     /\ room.Rows = 1 /\ room.Columns = 3 /\ students = OneGroupRoster) =>
        /\ GridIds(seats) = <<1, 0, 2>>
        /\ seats[2].IsEmpty
        /\ result = ErrorResult(1)

C19_Witness ==
    /\ Returned /\ algorithm = "separated"
    /\ room.Rows = 1 /\ room.Columns = 3 /\ students = OneGroupRoster
    /\ seats[3].StudentID = 2 /\ result.kind = "error" /\ result.unassigned = 1

\* The grid a strategy has filled (generateSnakeSeating: the grid it is
\* filling or has filled, also when it returns the error)
FilledGrid ==
    IF algorithm = "separated" THEN seats
    ELSE IF result.kind = "seats" THEN result.seats ELSE <<>>

\* The step of the strategy's fill order at which the seat at index k of the
\* grid is reached: column by column for "parallel", along the serpentine
\* path for "simple", row by row for "separated"
FillStep(k) ==
    LET i == (k - 1) \div room.Columns
        j == (k - 1) % room.Columns
    IN  IF algorithm = "parallel" THEN j * room.Rows + i
        ELSE IF algorithm = "simple"
        THEN i * room.Columns + (IF i % 2 = 0 THEN j ELSE room.Columns - 1 - j)
        ELSE k - 1

SeatsOf(grid, id) == {k \in 1..Len(grid) : grid[k].StudentID = id}

\* C20 -- FIFO per group (candidates told apart by their IDs): in every
\* strategy, if a precedes b in the roster and both have the same group,
\* then b is seated only if a is seated, and a's seat is reached at an
\* earlier step of the strategy's fill order than b's.
C20_FifoPerGroup ==
    DistinctIds(students) =>
        \A a, b \in 1..Len(students) :
            (/\ a < b /\ students[a].Department = students[b].Department
             /\ SeatsOf(FilledGrid, students[b].StudentID) # {}) =>
                /\ SeatsOf(FilledGrid, students[a].StudentID) # {}
                /\ \A x \in SeatsOf(FilledGrid, students[a].StudentID) :
                   \A y \in SeatsOf(FilledGrid, students[b].StudentID) :
                       FillStep(x) < FillStep(y)

\* Two candidates of group X seated around one of group Y by
\* generateSnakeSeating
C20_Witness ==
    /\ Returned /\ algorithm = "separated" /\ result.kind = "seats"
    /\ room.Rows = 1 /\ room.Columns = 3
    /\ students = << [StudentID |-> 1, Department |-> 1],
                     [StudentID |-> 2, Department |-> 2],
                     [StudentID |-> 3, Department |-> 1] >>
    /\ GridIds(FilledGrid) = <<1, 2, 3>>

\* -------------------------------------------- claims on the rooms of a plan
\* The exam rooms whose room is stored, in the exam's order
ResolvedExamRooms ==
    SelectSeq(examRooms, LAMBDA e : FindRoomByID(e.RoomID) # NoRoom)

\* The grids generateSnakeSeating can return for a room and a roster, from
\* seat k on (the choice among the admissible departments is open)
RECURSIVE SnakeGrids(_, _, _, _, _)
SnakeGrids(rm, sts, grid, dm, k) ==
    IF k >= rm.Rows * rm.Columns
    THEN IF unassigned(dm) > 0 THEN {} ELSE {grid}
    ELSE LET i == k \div rm.Columns
             j == k % rm.Columns
             cands == candidates(dm, adjDepts(rm, sts, grid, i, j))
         IN  IF cands = {}
             THEN SnakeGrids(rm, sts, [grid EXCEPT ![k + 1] = EmptySeat(i + 1, j + 1)],
                             dm, k + 1)
             ELSE UNION {SnakeGrids(rm, sts,
                             [grid EXCEPT ![k + 1] =
                                 OccupiedSeat(i + 1, j + 1, Head(dm[d]).StudentID)],
                             [dm EXCEPT ![d] = Tail(dm[d])], k + 1) : d \in cands}

\* The grids a room can get from its own room record and its own student
\* lists alone
OwnGrids(examRoom) ==
    LET rm == FindRoomByID(examRoom.RoomID)
        own == RoomRoster(rm, examRoom)
    IN  IF own = <<>> THEN {EmptyRoomSeats(rm)}
        ELSE IF algorithm = "parallel" THEN {generateParallelSeating(rm, own).seats}
        ELSE IF algorithm = "simple" THEN {generateRandomSeating(rm, own).seats}
        ELSE IF algorithm = "separated"
        THEN SnakeGrids(rm, own, MakeSeats(rm.Rows * rm.Columns), GroupDeptMap(own), 0)
        ELSE {}

C22_DraftOnly ==
    /\ \A p \in 1..Len(plans) : plans[p].Status = "draft"
    /\ \A p \in 1..Len(response.plans) : response.plans[p].Status = "draft"

C22_Witness ==
    /\ planPc = "done" /\ response.kind = "plans"
    /\ Len(plans) = 1 /\ response.plans = plans
    /\ plans[1].Status = "draft" /\ Len(plans[1].Rooms) = 2

\* A grid whose seats are flagged empty exactly when they hold no StudentID
FlagsConsistent(grid) ==
    \A k \in 1..Len(grid) : grid[k].IsEmpty <=> grid[k].StudentID = 0

\* C23 -- Seat flag consistency: in every seat of every grid a strategy
\* returns or the empty-room fill builds, IsEmpty is true if and only if
\* StudentID is the empty string.
C23_SeatFlags ==
    /\ (Returned /\ result.kind = "seats") => FlagsConsistent(result.seats)
    /\ \A r \in 1..Len(planRooms) : FlagsConsistent(planRooms[r].Seats)
    /\ \A p \in 1..Len(plans) : \A r \in 1..Len(plans[p].Rooms) :
           FlagsConsistent(plans[p].Rooms[r].Seats)

\* A stored 2x2 grid for the list that names a student without an ID: one
\* seat is occupied
C23_Witness ==
    /\ planPc = "done" /\ response.kind = "plans" /\ Len(planRooms) = 2
    /\ ResolvedExamRooms[1].StudentListIDs = {2}
    /\ Len(planRooms[1].Seats) = 4 /\ Occupied(planRooms[1].Seats) = 1
    /\ Occupied(planRooms[2].Seats) = 0 /\ Len(planRooms[2].Seats) > 0

\* The students with an ID on the student lists `ids`, list after list from
\* list l on, each tagged with the department of its list
RECURSIVE ListedFrom(_, _)
ListedFrom(ids, l) ==
    IF l > Len(StudentListTable) THEN <<>>
    ELSE LET list == StudentListTable[l]
             tagged == [k \in 1..Len(list.Students) |->
                           [StudentID |-> list.Students[k], Department |-> list.Department]]
         IN  (IF l \in ids THEN SelectSeq(tagged, LAMBDA st : st.StudentID # 0) ELSE <<>>)
                 \o ListedFrom(ids, l + 1)

C27_PlanAlignment ==
    /\ \A i \in 1..Len(planRooms) :
           LET er == ResolvedExamRooms[i]
               rm == FindRoomByID(er.RoomID)
           IN  /\ allRooms[i] = rm
               /\ roomExamRooms[i] = er
               /\ roomStudentsList[i] = RoomRoster(rm, er)
               /\ planRooms[i].RoomID = rm.ID
               /\ planRooms[i].Rows = rm.Rows
               /\ planRooms[i].Columns = rm.Columns
               /\ planRooms[i].Capacity = rm.Capacity
               /\ planRooms[i].Invigilators = er.Invigilators
               /\ planRooms[i].Seats \in OwnGrids(er)
    /\ response.kind = "plans" =>
           /\ Len(planRooms) = Len(ResolvedExamRooms)
           /\ response.plans[1].Rooms = planRooms

\* The first exam room's room is not found: the plan's only room is the
\* second exam room's, with its invigilator and its students
C27_Witness ==
    /\ planPc = "done" /\ response.kind = "plans"
    /\ Len(examRooms) = 2 /\ examRooms[1].RoomID = 0
    /\ Len(planRooms) = 1 /\ planRooms[1].Invigilators = <<2>>
    /\ planRooms[1].RoomID = examRooms[2].RoomID
    /\ Occupied(planRooms[1].Seats) = 2

C25_SeatedPerGroup ==
    /\ (Returned /\ algorithm = "parallel" /\ students # <<>>) => result.kind = "seats"
    /\ (Returned /\ result.kind = "seats" /\ algorithm = "parallel") =>
           LET groups == FirstSeenGroups(students)
               n == Len(groups)
           IN  \A g \in 0..(n - 1) :
                   LET cols == {j \in 0..(room.Columns - 1) : j % n = g}
                       inCols == {k \in OccupiedIdx(result.seats) :
                                     ((k - 1) % room.Columns) \in cols}
                       size == Len(Members(students, groups[g + 1]))
                       seated == {m \in 1..Len(students) :
                                     /\ students[m].Department = groups[g + 1]
                                     /\ SeatsOf(result.seats, students[m].StudentID) # {}}
                   IN  /\ Cardinality(inCols) = Min(size, room.Rows * Cardinality(cols))
                       /\ DistinctIds(students) =>
                              Cardinality(seated) = Cardinality(inCols)
                       /\ (g >= room.Columns /\ DistinctIds(students)) => seated = {}

\* Three groups and two columns: the third group has no member seated
C25_Witness ==
    /\ Returned /\ result.kind = "seats" /\ algorithm = "parallel"
    /\ room.Rows = 2 /\ room.Columns = 2
    /\ students = << [StudentID |-> 1, Department |-> 1],
                     [StudentID |-> 2, Department |-> 2],
                     [StudentID |-> 3, Department |-> 3] >>
    /\ GridIds(result.seats) = <<1, 2, 0, 0>>


\* C28: after any interleaving of AddInvigilatorToRoom requests, no
\* invigilator is on the lists of two different exam rooms of the same exam.
C28_InvigilatorExclusivity ==
    \A i \in InvigilatorIDs : \A a, b \in DOMAIN roomInvigilators :
          (/\ ExamRoomTable[a].ExamID = ExamRoomTable[b].ExamID
           /\ i \in roomInvigilators[a]
           /\ i \in roomInvigilators[b]) => a = b


\* C29: a notification that SendDueNotifications has handled has status
\* "sent" or "failed", and over the scheduler's ticks each notification is
\* emailed in at most one tick.
C29_SentAtMostOnce ==
    \A n \in DOMAIN notifications :
        /\ n \in notifHandled => notifications[n].status \in {"sent", "failed"}
        /\ Cardinality(emailedIn[n]) <= 1


\* C30: distributeStudentsAcrossRooms terminates (it returns, or stops with a
\* panic), whatever the algorithm, the students and the non-empty rooms.
C30_Terminates == <>(distPc \in {"done", "panic"})

====
